---- MODULE Spec2Model ----
(***************************************************************************)
(* Python enumerations with ctypes support (enumeration.py).               *)
(*                                                                         *)
(* The metaclass EnumerationType builds two lookup dicts when a subclass   *)
(* of Enumeration is created; the class then answers attribute, index,     *)
(* membership and iteration requests from them.  Instances are ctypes      *)
(* integers of the configured storage type: a fixed-width buffer that is   *)
(* written to and read from files as it is.                                *)
(*                                                                         *)
(* A Python str is a sequence of one-character strings, so that            *)
(* startswith("_") is computed and not assumed.  Python values that the    *)
(* operations take and return are records with a type tag.                 *)
(***************************************************************************)
EXTENDS Integers, Sequences, FiniteSets, TLC

VARIABLES
    clsdict,        \* class name -> the body of its class statement
    created,        \* the classes whose class statement has run
    storage,        \* class name -> the ctype its instances are stored as
    namesByValue,   \* class name -> dict: value -> str or tuple of str
    valuesByName,   \* class name -> dict: name -> value
    gen,            \* the generator returned by the last iter(cls)
    yielded,        \* the pairs the current iteration has produced so far
    listings,       \* the results of the completed iterations, oldest first
    objs,           \* heap of Enumeration instances: [cls, buf]
    pc,             \* position of the read/write script (__main__)
    x,              \* the integer the script constructs its instance from
    a,              \* script variable a (index into objs, 0 = unbound)
    b,              \* script variable b (index into objs, 0 = unbound)
    f,              \* script variable f: [data, pos]
    ret             \* outcome of the last operation

vars == <<clsdict, created, storage, namesByValue, valuesByName, gen, yielded,
          listings, objs, pc, x, a, b, f, ret>>

typeVars == <<clsdict, created, storage, namesByValue, valuesByName>>
iterVars == <<gen, yielded, listings>>
instVars == <<objs, pc, x, a, b, f>>

-----------------------------------------------------------------------------
(* Bounds of the model *)

MaxMembers == 3         \* longest _values_ list of the class under study
MaxInstMembers == 2     \* longest _values_ list when instances are studied
MaxObjs == 3            \* most instances alive at once
MaxListings == 2        \* completed iterations that are remembered

-----------------------------------------------------------------------------
(* Python values *)

PyNone == [t |-> "None", i |-> 0, s |-> <<>>, tup |-> <<>>]
PyInt(n) == [t |-> "int", i |-> n, s |-> <<>>, tup |-> <<>>]
PyStr(str) == [t |-> "str", i |-> 0, s |-> str, tup |-> <<>>]
PyTuple(strs) == [t |-> "tuple", i |-> 0, s |-> <<>>, tup |-> strs]
PyPair(name, value) == [t |-> "pair", i |-> value, s |-> name, tup |-> <<>>]
PyObj(id) == [t |-> "obj", i |-> id, s |-> <<>>, tup |-> <<>>]

\* str.startswith("_")
startswith_(str) == Len(str) >= 1 /\ str[1] = "_"

EmptyDict == <<>>

\* d[k] = v
DictSet(d, k, v) == [key \in DOMAIN d \cup {k} |-> IF key = k THEN v ELSE d[key]]

Names == { <<"A">>, <<"B">>, <<"_", "C">> }
ExplicitValues == {-1, 2}

\* entries of _values_: a bare str, or a tuple whose first element is the name
Bare(n) == [tuple |-> FALSE, len |-> 0, name |-> n, value |-> 0]
Tuple1(n) == [tuple |-> TRUE, len |-> 1, name |-> n, value |-> 0]
Tuple2(n, v) == [tuple |-> TRUE, len |-> 2, name |-> n, value |-> v]

\* the entries a _values_ list is drawn from (one 1-tuple keeps the set small)
Members == {Bare(n) : n \in Names} \cup {Tuple2(n, v) : n \in Names, v \in ExplicitValues}
              \cup {Tuple1(<<"A">>)}

SeqsUpTo(S, n) == UNION {[1..k -> S] : k \in 0..n}

-----------------------------------------------------------------------------
(* ctypes integer types: size in bytes, signedness; native order is little endian *)

c_long == [name |-> "c_long", size |-> 8, signed |-> TRUE]
c_int8 == [name |-> "c_int8", size |-> 1, signed |-> TRUE]
c_uint8 == [name |-> "c_uint8", size |-> 1, signed |-> FALSE]
c_uint16 == [name |-> "c_uint16", size |-> 2, signed |-> FALSE]

\* ToBytes that stores the magnitude of v and loses its sign
RECURSIVE ToBytes_Magnitude(_, _)
ToBytes_Magnitude(v, n) ==
    LET m == IF v < 0 THEN -v ELSE v
    IN IF n = 0 THEN <<>> ELSE <<m % 256>> \o ToBytes_Magnitude(m \div 256, n - 1)

\* the n low-order bytes of v in two's complement, least significant first
RECURSIVE ToBytes(_, _)
ToBytes(v, n) == IF n = 0 THEN <<>> ELSE <<v % 256>> \o ToBytes(v \div 256, n - 1)

\* the integer a buffer holds
RECURSIVE FromBytes(_, _)
FromBytes(buf, signed) ==
    IF buf = <<>> THEN 0
    ELSE IF Len(buf) = 1
         THEN IF signed /\ buf[1] >= 128 THEN buf[1] - 256 ELSE buf[1]
         ELSE buf[1] + 256 * FromBytes(Tail(buf), signed)

-----------------------------------------------------------------------------
(* Class creation *)

\* EnumerationType.__new__: the ctype the new class derives from
EnumerationType_new(d) ==
    IF d.has_ctype /\ d.ctype # c_long THEN d.ctype ELSE c_long

\* InitStep with the slip that an explicit value does not move the counter:
\* the next default follows the previous default, not the explicit value
InitStep_NoReset(st, v) ==
    LET curName == v.name
        curValue == IF v.tuple /\ v.len = 2 THEN v.value ELSE st.curValue
        nbv == st.namesByValue
        nbv2 == IF curValue \in DOMAIN nbv
                THEN LET val == nbv[curValue]
                     IN IF val.t = "str"
                        THEN DictSet(nbv, curValue, PyTuple(<<val.s, curName>>))
                        ELSE DictSet(nbv, curValue, PyTuple(Append(val.tup, curName)))
                ELSE DictSet(nbv, curValue, PyStr(curName))
    IN [namesByValue |-> nbv2,
        valuesByName |-> DictSet(st.valuesByName, curName, curValue),
        curValue |-> st.curValue + 1]

\* one turn of the loop over _values_
InitStep(st, v) ==
    LET curName == v.name
        curValue == IF v.tuple /\ v.len = 2 THEN v.value ELSE st.curValue
        nbv == st.namesByValue
        nbv2 == IF curValue \in DOMAIN nbv
                THEN LET val == nbv[curValue]
                     IN IF val.t = "str"
                        THEN DictSet(nbv, curValue, PyTuple(<<val.s, curName>>))
                        ELSE DictSet(nbv, curValue, PyTuple(Append(val.tup, curName)))
                ELSE DictSet(nbv, curValue, PyStr(curName))
    IN [namesByValue |-> nbv2,
        valuesByName |-> DictSet(st.valuesByName, curName, curValue),
        curValue |-> curValue + 1]

RECURSIVE InitLoop(_, _, _)
InitLoop(st, values, k) ==
    IF k > Len(values) THEN st ELSE InitLoop(InitStep(st, values[k]), values, k + 1)

\* EnumerationType.__init__: the lookup dicts of a subclass of Enumeration
EnumerationType_init(d) ==
    LET start_value == IF d.start_value # PyNone THEN d.start_value.i ELSE 0
    IN InitLoop([namesByValue |-> EmptyDict, valuesByName |-> EmptyDict,
                 curValue |-> start_value], d.values, 1)

-----------------------------------------------------------------------------
(* Operations of the class *)

\* k in d, for a dict whose keys are integers
InIntDict(k, d) == k.t = "int" /\ k.i \in DOMAIN d

\* __contains__ with the guard inverted (the "not" lost)
EnumerationType_contains_Inverted(nbv, value) ==
    IF value.t = "str" /\ startswith_(value.s)
    THEN IF InIntDict(value, nbv) THEN nbv[value.i] ELSE PyNone
    ELSE PyNone

\* EnumerationType.__contains__
EnumerationType_contains(nbv, value) ==
    IF ~(value.t = "str" /\ startswith_(value.s))
    THEN IF InIntDict(value, nbv) THEN nbv[value.i] ELSE PyNone
    ELSE PyNone

\* EnumerationType.__getitem__
EnumerationType_getitem(nbv, values) ==
    IF InIntDict(values, nbv) THEN nbv[values.i] ELSE PyNone

\* __getattr__ without the test of the reserved prefix
EnumerationType_getattr_NoPrefix(vbn, name) ==
    IF name \in DOMAIN vbn THEN PyInt(vbn[name]) ELSE PyNone

\* EnumerationType.__getattr__ ("_values_" is in the __dict__ of every class here)
EnumerationType_getattr(vbn, name) ==
    IF ~startswith_(name)
    THEN IF name \in DOMAIN vbn THEN PyInt(vbn[name]) ELSE PyNone
    ELSE PyNone

\* the keys in the opposite order
RECURSIVE sorted_Descending(_)
sorted_Descending(S) ==
    IF S = {} THEN <<>>
    ELSE LET m == CHOOSE e \in S : \A o \in S : e >= o
         IN <<m>> \o sorted_Descending(S \ {m})

\* sorted(): the elements of a finite set of integers in ascending order
RECURSIVE sorted(_)
sorted(S) ==
    IF S = {} THEN <<>>
    ELSE LET m == CHOOSE e \in S : \A o \in S : e <= o
         IN <<m>> \o sorted(S \ {m})

NoGen == [state |-> "none", cls |-> "", keys |-> <<>>, j |-> 1]

\* one next() of the generator EnumerationType.__iter__ returns: the new
\* generator state and the pair it yields (PyNone with stop on StopIteration)
IterAdvance(g, nbv) ==
    LET keys == IF g.state = "created" THEN sorted(DOMAIN nbv) ELSE g.keys
    IN IF keys = <<>>
       THEN [gen |-> [g EXCEPT !.state = "finished", !.keys = <<>>, !.j = 1],
             stop |-> TRUE, pair |-> PyNone]
       ELSE LET value == Head(keys)
                name == nbv[value]
            IN IF name.t = "str"
               THEN [gen |-> [g EXCEPT !.state = "running", !.keys = Tail(keys), !.j = 1],
                     stop |-> FALSE, pair |-> PyPair(name.s, value)]
               ELSE [gen |-> IF g.j < Len(name.tup)
                             THEN [g EXCEPT !.state = "running", !.keys = keys, !.j = g.j + 1]
                             ELSE [g EXCEPT !.state = "running", !.keys = Tail(keys), !.j = 1],
                     stop |-> FALSE, pair |-> PyPair(name.tup[g.j], value)]

-----------------------------------------------------------------------------
(* Inputs *)

LookupInputs == {PyInt(v) : v \in {-1, 0, 2, 3}} \cup {PyStr(<<"A">>), PyStr(<<"_", "C">>)}
AttrNames == Names \cup { <<"Z">> }
StartValues == {PyNone, PyInt(255)}

NoRet == [op |-> "", cls |-> "", arg |-> PyNone, exc |-> "", val |-> PyNone]
Ret(op, c, arg, exc, val) == [op |-> op, cls |-> c, arg |-> arg, exc |-> exc, val |-> val]

\* class bodies: _ctype_ absent, or one of ctypes; _values_; _start_value_
ClassBodies(ctypes, members, n) ==
    [has_ctype : {FALSE}, ctype : {c_long}, values : SeqsUpTo(members, n),
     start_value : StartValues]
    \cup [has_ctype : {TRUE}, ctype : ctypes, values : SeqsUpTo(members, n),
          start_value : StartValues]

\* the class of the module docstring, with the names of this model
MH_FILETYPE ==
    [has_ctype |-> TRUE, ctype |-> c_uint16,
     values |-> <<Bare(<<"A">>), Tuple2(<<"B">>, 2), Bare(<<"_", "C">>)>>,
     start_value |-> PyNone]

InitCommon ==
    /\ created = {}
    /\ storage = [c \in DOMAIN clsdict |-> c_long]
    /\ namesByValue = [c \in DOMAIN clsdict |-> EmptyDict]
    /\ valuesByName = [c \in DOMAIN clsdict |-> EmptyDict]
    /\ gen = NoGen
    /\ yielded = <<>>
    /\ listings = <<>>
    /\ objs = <<>>
    /\ pc = "start"
    /\ a = 0
    /\ b = 0
    /\ f = [data |-> <<>>, pos |-> 0]
    /\ ret = NoRet

Init ==
    /\ clsdict \in [{"T"} -> ClassBodies({}, Members, MaxMembers)]
    /\ x = 0
    /\ InitCommon

-----------------------------------------------------------------------------
(* Actions *)

\* the class statement of c runs: EnumerationType.__new__, then __init__
DefineClass(c) ==
    /\ c \in DOMAIN clsdict
    /\ c \notin created
    /\ c = "U" => "T" \in created
    /\ created' = created \cup {c}
    /\ storage' = [storage EXCEPT ![c] = EnumerationType_new(clsdict[c])]
    /\ LET tables == EnumerationType_init(clsdict[c])
       IN /\ namesByValue' = [namesByValue EXCEPT ![c] = tables.namesByValue]
          /\ valuesByName' = [valuesByName EXCEPT ![c] = tables.valuesByName]
    /\ ret' = Ret("class", c, PyNone, "", PyNone)
    /\ UNCHANGED <<clsdict, iterVars, instVars>>

\* value in cls, as EnumerationType.__contains__ returns it
Contains(c, value) ==
    /\ c \in created
    /\ ret' = Ret("contains", c, value, "", EnumerationType_contains(namesByValue[c], value))
    /\ UNCHANGED <<typeVars, iterVars, instVars>>

\* cls[values]
GetItem(c, values) ==
    /\ c \in created
    /\ ret' = Ret("getitem", c, values, "", EnumerationType_getitem(namesByValue[c], values))
    /\ UNCHANGED <<typeVars, iterVars, instVars>>

\* cls.name for a name ordinary attribute lookup does not find
GetAttr(c, name) ==
    /\ c \in created
    /\ ret' = Ret("getattr", c, PyStr(name), "", EnumerationType_getattr(valuesByName[c], name))
    /\ UNCHANGED <<typeVars, iterVars, instVars>>

\* iter(cls): a fresh generator; the iteration in progress, if any, is dropped
Iter(c) ==
    /\ c \in created
    /\ Len(listings) < MaxListings
    /\ gen' = [state |-> "created", cls |-> c, keys |-> <<>>, j |-> 1]
    /\ yielded' = <<>>
    /\ ret' = Ret("iter", c, PyNone, "", PyNone)
    /\ UNCHANGED <<typeVars, listings, instVars>>

\* next(generator)
IterNext ==
    /\ gen.state \in {"created", "running"}
    /\ LET r == IterAdvance(gen, namesByValue[gen.cls])
       IN /\ gen' = r.gen
          /\ yielded' = IF r.stop THEN yielded ELSE Append(yielded, r.pair)
          /\ listings' = IF r.stop
                          THEN Append(listings, [cls |-> gen.cls, pairs |-> yielded])
                          ELSE listings
          /\ ret' = Ret("next", gen.cls, PyNone, IF r.stop THEN "StopIteration" ELSE "", r.pair)
    /\ UNCHANGED <<typeVars, instVars>>

Next ==
    \/ \E c \in DOMAIN clsdict : DefineClass(c)
    \/ \E c \in DOMAIN clsdict, value \in LookupInputs : Contains(c, value)
    \/ \E c \in DOMAIN clsdict, values \in LookupInputs : GetItem(c, values)
    \/ \E c \in DOMAIN clsdict, name \in AttrNames : GetAttr(c, name)

\* definition and lookups
Spec == Init /\ [][Next]_vars

NextIter ==
    \/ \E c \in DOMAIN clsdict : DefineClass(c)
    \/ \E c \in DOMAIN clsdict : Iter(c)
    \/ IterNext

\* definition and iteration
SpecIter == Init /\ [][NextIter]_vars

-----------------------------------------------------------------------------
(* Instances *)

\* cls(param), cls(): a ctypes integer of the storage type holding param (0)
Enumeration_new(c, ct, param) == [cls |-> c, buf |-> ToBytes(param, ct.size)]

\* self.value
c_value(o) == FromBytes(o.buf, storage[o.cls].signed)

\* __getattr__ that answers with the first name of a value that has several
Enumeration_getattr_FirstAlias(o, key) ==
    IF key = "name"
    THEN IF c_value(o) \in DOMAIN namesByValue[o.cls]
         THEN LET val == namesByValue[o.cls][c_value(o)]
              IN [exc |-> "", val |-> IF val.t = "str" THEN val ELSE PyStr(val.tup[1])]
         ELSE [exc |-> "KeyError", val |-> PyNone]
    ELSE [exc |-> "AttributeError", val |-> PyNone]

\* __getattr__ that looks the value up with dict.get: None for an unknown value
Enumeration_getattr_Lenient(o, key) ==
    IF key = "name"
    THEN IF c_value(o) \in DOMAIN namesByValue[o.cls]
         THEN [exc |-> "", val |-> namesByValue[o.cls][c_value(o)]]
         ELSE [exc |-> "", val |-> PyNone]
    ELSE [exc |-> "AttributeError", val |-> PyNone]

\* Enumeration.__getattr__ for a key ordinary attribute lookup does not find
Enumeration_getattr(o, key) ==
    IF key = "name"
    THEN IF c_value(o) \in DOMAIN namesByValue[o.cls]
         THEN [exc |-> "", val |-> namesByValue[o.cls][c_value(o)]]
         ELSE [exc |-> "KeyError", val |-> PyNone]
    ELSE [exc |-> "AttributeError", val |-> PyNone]

\* from_param that lets an instance of any enumeration class through
Enumeration_from_param_NoCheck(c, param) ==
    IF param.t = "obj"
    THEN [exc |-> "", make |-> FALSE, val |-> param]
    ELSE [exc |-> "", make |-> TRUE, val |-> PyObj(Len(objs) + 1)]

\* Enumeration.from_param; make says that the result is cls(param)
Enumeration_from_param(c, param) ==
    IF param.t = "obj"
    THEN IF objs[param.i].cls = c
         THEN [exc |-> "", make |-> FALSE, val |-> param]
         ELSE [exc |-> "ValueError", make |-> FALSE, val |-> PyNone]
    ELSE [exc |-> "", make |-> TRUE, val |-> PyObj(Len(objs) + 1)]

Min(m, n) == IF m <= n THEN m ELSE n

\* f.write(o): the buffer of o goes to the file at its position
file_write(file, o) ==
    [data |-> SubSeq(file.data, 1, file.pos) \o o.buf
                \o SubSeq(file.data, file.pos + Len(o.buf) + 1, Len(file.data)),
     pos |-> file.pos + Len(o.buf)]

\* f.readinto(o): as many bytes as the file has left, at most the size of o,
\* replace the first bytes of the buffer of o; the number of bytes is returned
file_readinto(file, o) ==
    LET n == Min(Len(o.buf), Len(file.data) - file.pos)
    IN [n |-> n,
        pos |-> file.pos + n,
        buf |-> SubSeq(file.data, file.pos + 1, file.pos + n) \o SubSeq(o.buf, n + 1, Len(o.buf))]

ScriptInputs == {-1, 2, 256}
RawParams == {-1, 256}
InstMembers == {Bare(<<"A">>), Tuple2(<<"A">>, 2), Tuple2(<<"B">>, 2)}
InstCTypes == {c_int8, c_uint8}

InitInst ==
    /\ \E body \in ClassBodies(InstCTypes, InstMembers, MaxInstMembers) :
           clsdict = [c \in {"T", "U"} |-> IF c = "T" THEN body ELSE MH_FILETYPE]
    /\ x \in ScriptInputs
    /\ InitCommon

\* a = T(x)
ScriptNewA ==
    /\ pc = "start"
    /\ created = DOMAIN clsdict
    /\ Len(objs) < MaxObjs
    /\ objs' = Append(objs, Enumeration_new("T", storage["T"], x))
    /\ a' = Len(objs) + 1
    /\ pc' = "write"
    /\ ret' = Ret("new", "T", PyInt(x), "", PyObj(Len(objs) + 1))
    /\ UNCHANGED <<typeVars, iterVars, x, b, f>>

\* f = open("test", "wb+"); f.write(a)
ScriptWrite ==
    /\ pc = "write"
    /\ f' = file_write(f, objs[a])
    /\ pc' = "seek"
    /\ ret' = Ret("write", "T", PyObj(a), "", PyInt(Len(objs[a].buf)))
    /\ UNCHANGED <<typeVars, iterVars, objs, x, a, b>>

\* f.seek(0)
ScriptSeek ==
    /\ pc = "seek"
    /\ f' = [f EXCEPT !.pos = 0]
    /\ pc' = "new_b"
    /\ ret' = Ret("seek", "", PyInt(0), "", PyNone)
    /\ UNCHANGED <<typeVars, iterVars, objs, x, a, b>>

\* b = c(), for the class of a or another one
ScriptNewB(c) ==
    /\ pc = "new_b"
    /\ c \in created
    /\ Len(objs) < MaxObjs
    /\ objs' = Append(objs, Enumeration_new(c, storage[c], 0))
    /\ b' = Len(objs) + 1
    /\ pc' = "readinto"
    /\ ret' = Ret("new", c, PyNone, "", PyObj(Len(objs) + 1))
    /\ UNCHANGED <<typeVars, iterVars, x, a, f>>

\* f.readinto(b)
ScriptReadInto ==
    /\ pc = "readinto"
    /\ LET r == file_readinto(f, objs[b])
       IN /\ objs' = [objs EXCEPT ![b].buf = r.buf]
          /\ f' = [f EXCEPT !.pos = r.pos]
          /\ ret' = Ret("readinto", objs[b].cls, PyObj(b), "", PyInt(r.n))
    /\ pc' = "done"
    /\ UNCHANGED <<typeVars, iterVars, x, a, b>>

\* o.name, o.key
GetInstAttr(id, key) ==
    /\ pc = "done"
    /\ id \in 1..Len(objs)
    /\ LET r == Enumeration_getattr(objs[id], key)
       IN ret' = Ret(key, objs[id].cls, PyObj(id), r.exc, r.val)
    /\ UNCHANGED <<typeVars, iterVars, instVars>>

\* c.from_param(param)
FromParam(c, param) ==
    /\ pc = "done"
    /\ c \in created
    /\ param.t = "obj" => param.i \in 1..Len(objs)
    /\ LET r == Enumeration_from_param(c, param)
       IN /\ r.make => Len(objs) < MaxObjs
          /\ objs' = IF r.make
                     THEN Append(objs, Enumeration_new(c, storage[c], param.i))
                     ELSE objs
          /\ ret' = Ret("from_param", c, param, r.exc, r.val)
    /\ UNCHANGED <<typeVars, iterVars, pc, x, a, b, f>>

NextInst ==
    \/ \E c \in DOMAIN clsdict : DefineClass(c)
    \/ ScriptNewA
    \/ ScriptWrite
    \/ ScriptSeek
    \/ \E c \in DOMAIN clsdict : ScriptNewB(c)
    \/ ScriptReadInto
    \/ \E id \in 1..MaxObjs, key \in {"name", "other"} : GetInstAttr(id, key)
    \/ \E c \in DOMAIN clsdict, param \in {PyObj(id) : id \in 1..MaxObjs} \cup {PyInt(p) : p \in RawParams} :
           FromParam(c, param)

\* definition, the read/write script, then instance operations
SpecInst == InitInst /\ [][NextInst]_vars

-----------------------------------------------------------------------------
(* Properties of the definition and of the lookups *)

\* the names a dict entry lists: a str is one name, a tuple lists its elements
Listed(entry) == IF entry.t = "str" THEN <<entry.s>> ELSE entry.tup

ListedSet(entry) == {Listed(entry)[k] : k \in 1..Len(Listed(entry))}

\* the value the k-th entry of _values_ is to get: its explicit value, else the
\* value of the entry before it plus one, else the start value
RECURSIVE MemberValue(_, _)
MemberValue(d, k) ==
    IF d.values[k].tuple /\ d.values[k].len = 2 THEN d.values[k].value
    ELSE IF k = 1 THEN (IF d.start_value = PyNone THEN 0 ELSE d.start_value.i)
    ELSE MemberValue(d, k - 1) + 1

\* the last entry of _values_ that declares the name of entry k
IsLastOfName(d, k) == \A m \in (k + 1)..Len(d.values) : d.values[m].name # d.values[k].name

\* C1: every member gets its explicit value, or the previous member's value + 1
\* (the start value for the first member): it is listed under that value, and
\* the name resolves to it (the last declaration of a repeated name decides).
C1_ValueAssignment ==
    \A c \in created :
        \A k \in 1..Len(clsdict[c].values) :
            LET d == clsdict[c]
                v == MemberValue(d, k)
            IN /\ v \in DOMAIN namesByValue[c]
               /\ d.values[k].name \in ListedSet(namesByValue[c][v])
               /\ IsLastOfName(d, k) => valuesByName[c][d.values[k].name] = v

\* the declaration A, (B, 2), _C of the docstring gives 0, 2, 3
C1_Witness ==
    /\ "T" \in created
    /\ clsdict["T"].values = <<Bare(<<"A">>), Tuple2(<<"B">>, 2), Bare(<<"_", "C">>)>>
    /\ clsdict["T"].start_value = PyNone
    /\ valuesByName["T"] = (<<"A">> :> 0) @@ (<<"B">> :> 2) @@ (<<"_", "C">> :> 3)

\* C2: the two dicts describe the same (name, value) pairs: every name of
\* valuesByName is listed under its value, every name listed under a value
\* resolves to that value, and every value lists at least one name.
C2_TablesAgree ==
    \A c \in created :
        /\ \A n \in DOMAIN valuesByName[c] :
               /\ valuesByName[c][n] \in DOMAIN namesByValue[c]
               /\ n \in ListedSet(namesByValue[c][valuesByName[c][n]])
        /\ \A v \in DOMAIN namesByValue[c] :
               /\ Len(Listed(namesByValue[c][v])) >= 1
               /\ \A n \in ListedSet(namesByValue[c][v]) :
                      n \in DOMAIN valuesByName[c] /\ valuesByName[c][n] = v

\* what a lookup of x in the value table is to give
NamesOf(c, arg) ==
    IF arg.t = "int" /\ arg.i \in DOMAIN namesByValue[c] THEN namesByValue[c][arg.i] ELSE PyNone

C7_AttributeLookup ==
    ret.op = "getattr" =>
        LET n == ret.arg.s
            vbn == valuesByName[ret.cls]
        IN /\ ret.exc = ""
           /\ (n[1] # "_" /\ n \in DOMAIN vbn) => ret.val = PyInt(vbn[n])
           /\ (n[1] # "_" /\ n \notin DOMAIN vbn) => ret.val = PyNone
           /\ n[1] = "_" => ret.val = PyNone

\* a declared member with a reserved name is looked up and not found
C7_Witness ==
    /\ ret.op = "getattr"
    /\ ret.arg.s = <<"_", "C">>
    /\ <<"_", "C">> \in DOMAIN valuesByName[ret.cls]
    /\ ret.val = PyNone

-----------------------------------------------------------------------------
(* Properties of iteration *)

\* the names of the pairs of L that carry value v, in the order of L
NamesWithValue(L, v) ==
    LET HasValue(p) == p.i = v
        sel == SelectSeq(L, HasValue)
    IN [k \in 1..Len(sel) |-> sel[k].s]

\* L is the listing of class c: ascending values, and under each value exactly
\* the names the value table lists, in their order
IsListingOf(c, L) ==
    /\ \A i, j \in 1..Len(L) : i < j => L[i].i <= L[j].i
    /\ \A k \in 1..Len(L) : L[k].t = "pair" /\ L[k].i \in DOMAIN namesByValue[c]
    /\ \A v \in DOMAIN namesByValue[c] : NamesWithValue(L, v) = Listed(namesByValue[c][v])

\* C3: a completed iteration yields the (name, value) pairs in non-decreasing
\* value order, one pair per name listed under a value, the names of a value in
\* declaration order; an iteration starts from the lowest value, and every
\* completed iteration of a class yields the same sequence.
C3_IterationOrder ==
    /\ \A k \in 1..Len(listings) : IsListingOf(listings[k].cls, listings[k].pairs)
    /\ \A k, m \in 1..Len(listings) :
           listings[k].cls = listings[m].cls => listings[k].pairs = listings[m].pairs
    /\ yielded # <<>> => \A v \in DOMAIN namesByValue[gen.cls] : yielded[1].i <= v

\* two completed iterations of a class with several values, one of them aliased
C3_Witness ==
    /\ Len(listings) = 2
    /\ Cardinality(DOMAIN namesByValue["T"]) >= 2
    /\ \E v \in DOMAIN namesByValue["T"] : namesByValue["T"][v].t = "tuple"

-----------------------------------------------------------------------------
(* Properties of instances *)

RECURSIVE Pow256(_)
Pow256(n) == IF n = 0 THEN 1 ELSE 256 * Pow256(n - 1)

\* v is a value of the ctype ct; every integer of this model is a c_long
Representable(ct, v) ==
    IF ct.size >= 4 THEN TRUE
    ELSE IF ct.signed
         THEN -(Pow256(ct.size) \div 2) <= v /\ v < Pow256(ct.size) \div 2
         ELSE 0 <= v /\ v < Pow256(ct.size)

\* v reduced modulo 2^(8 * size) into the range of ct
Wrap(ct, v) ==
    IF ct.size >= 4 THEN v
    ELSE LET m == Pow256(ct.size)
             r == v % m
         IN IF ct.signed /\ r >= m \div 2 THEN r - m ELSE r

\* the names of the entries of _values_ that get value v, in declaration order
RECURSIVE DeclaredWith(_, _, _)
DeclaredWith(d, v, k) ==
    IF k = 0 THEN <<>>
    ELSE IF MemberValue(d, k) = v
         THEN Append(DeclaredWith(d, v, k - 1), d.values[k].name)
         ELSE DeclaredWith(d, v, k - 1)

\* the script has read the name of a, and x is the declared value of a member
NameOfMemberRead ==
    /\ ret.op = "name"
    /\ a # 0
    /\ ret.arg = PyObj(a)
    /\ \E n \in DOMAIN valuesByName["T"] : valuesByName["T"][n] = x

\* C4 as stated: an instance made from the declared value of a member n holds
\* that value and its name is n.
C4_NameRoundTrip_Original ==
    NameOfMemberRead =>
        \A n \in DOMAIN valuesByName["T"] :
            valuesByName["T"][n] = x =>
                /\ c_value(objs[a]) = x
                /\ ret.exc = ""
                /\ ret.val = PyStr(n)

\* C4 (amended): an instance made from the declared value x of a member n holds
\* x reduced into the range of the storage type, which is x when x is
\* representable; then its name is n when n is the only member declared with x,
\* and otherwise the tuple of all names declared with x, in declaration order.
C4_NameRoundTrip ==
    NameOfMemberRead =>
        \A n \in DOMAIN valuesByName["T"] :
            valuesByName["T"][n] = x =>
                LET d == clsdict["T"]
                    names == DeclaredWith(d, x, Len(d.values))
                    held == Wrap(storage["T"], x)
                IN /\ c_value(objs[a]) = held
                   /\ ~Representable(storage["T"], x) =>
                          IF held \in DOMAIN namesByValue["T"]
                          THEN ret.exc = "" /\ ret.val = namesByValue["T"][held]
                          ELSE ret.exc = "KeyError"
                   /\ Representable(storage["T"], x) =>
                          /\ c_value(objs[a]) = x
                          /\ ret.exc = ""
                          /\ n \in {names[k] : k \in 1..Len(names)}
                          /\ ret.val = IF Len(names) = 1 THEN PyStr(names[1]) ELSE PyTuple(names)

\* the name of an instance made from a representable value declared once
C4_Witness ==
    /\ NameOfMemberRead
    /\ Representable(storage["T"], x)
    /\ ret.val.t = "str"
    /\ valuesByName["T"][ret.val.s] = x

\* C5: the script's round trip: f.write(a) writes exactly sizeof(storage type)
\* bytes, and f.readinto(b) into a fresh instance of the same class gives b the
\* value of a, which is x whenever x is representable in the storage type.
C5_EncodeDecodeRoundTrip ==
    /\ pc \in {"seek", "new_b", "readinto", "done"} =>
           /\ Len(f.data) = storage["T"].size
           /\ \A k \in 1..Len(f.data) : f.data[k] \in 0..255
    /\ ret.op = "write" => ret.val = PyInt(storage["T"].size)
    /\ (pc = "done" /\ objs[b].cls = "T") =>
           /\ Len(objs[b].buf) = storage["T"].size
           /\ c_value(objs[b]) = c_value(objs[a])
           /\ Representable(storage["T"], x) => c_value(objs[b]) = x

\* a negative value has gone through a one-byte signed file and come back
C5_Witness ==
    /\ pc = "done"
    /\ objs[b].cls = "T"
    /\ storage["T"] = c_int8
    /\ x = -1
    /\ f.data = <<255>>
    /\ c_value(objs[b]) = -1

\* C8: constructing an instance from any integer succeeds, and reading the
\* name of an instance raises KeyError exactly when the value it holds is not
\* a key of namesByValue.
C8_UnknownValueFailsAtAccess ==
    /\ ret.op = "new" =>
           /\ ret.exc = ""
           /\ ret.val.t = "obj"
           /\ ret.val.i \in 1..Len(objs)
           /\ objs[ret.val.i].cls = ret.cls
    /\ ret.op = "name" =>
           LET o == objs[ret.arg.i]
           IN /\ ret.exc \in {"", "KeyError"}
              /\ ret.exc = "KeyError" <=> c_value(o) \notin DOMAIN namesByValue[o.cls]

\* an instance of an undeclared value exists, and reading its name has failed
C8_Witness ==
    /\ ret.op = "name"
    /\ ret.exc = "KeyError"
    /\ clsdict[ret.cls].values # <<>>

\* C9 as stated: from_param of a raw integer p gives a new instance holding p.
C9_FromParam_Original ==
    (ret.op = "from_param" /\ ret.arg.t = "int") =>
        /\ ret.exc = ""
        /\ ret.val.t = "obj"
        /\ c_value(objs[ret.val.i]) = ret.arg.i

\* C9 (amended): T.from_param(p) returns p itself when p is an instance of
\* exactly T, raises ValueError when p is an instance of another enumeration
\* class, and for a raw integer p returns a new instance of T that holds p
\* reduced into the range of T's storage type (p itself when representable).
C9_FromParam ==
    ret.op = "from_param" =>
        /\ (ret.arg.t = "obj" /\ objs[ret.arg.i].cls = ret.cls) =>
               ret.exc = "" /\ ret.val = ret.arg
        /\ (ret.arg.t = "obj" /\ objs[ret.arg.i].cls # ret.cls) =>
               ret.exc = "ValueError"
        /\ ret.arg.t = "int" =>
               /\ ret.exc = ""
               /\ ret.val = PyObj(Len(objs))
               /\ ret.val.i \notin {a, b}
               /\ objs[ret.val.i].cls = ret.cls
               /\ c_value(objs[ret.val.i]) = Wrap(storage[ret.cls], ret.arg.i)
               /\ Representable(storage[ret.cls], ret.arg.i) =>
                      c_value(objs[ret.val.i]) = ret.arg.i

\* an instance of another class has been refused
C9_Witness ==
    /\ ret.op = "from_param"
    /\ ret.arg.t = "obj"
    /\ objs[ret.arg.i].cls # ret.cls
    /\ ret.exc = "ValueError"

\* C10: readinto from a file that has fewer bytes left than the instance is
\* wide fails.
C10_ShortReadFails ==
    (ret.op = "readinto" /\ ret.val.i < storage[ret.cls].size) => ret.exc # ""

====
